---- MODULE Spec2Model ----
\* Lead-capture assistant (src/utils.py, src/app.py): the session profile
\* accumulator, the credential pool, the LLM gateway and the reply parser.
\*
\* A Python str is modelled as a sequence of one-character strings; a Python
\* value that reaches the accumulator is a record: [t |-> "none"] (None),
\* [t |-> "str", s |-> <<chars>>] or [t |-> "int", n |-> k] (a JSON number).
EXTENDS Integers, Sequences, FiniteSets, TLC

VARIABLES
    user_details,    \* st.session_state.user_details (field -> value)
    last_extracted,  \* history: the argument of the last update_from_llm call
    repeated,        \* history: the last call repeated the argument of the call before it
    ncalls,          \* history: number of update_from_llm calls so far
    observed,        \* history: the fields a usable value has been merged into
    keys,            \* KeyManager.keys (provider -> list of keys)
    key_indices,     \* st.session_state.key_indices (provider -> index)
    loading,         \* KeyManager.__init__ is still loading keys
    last_add,        \* history: the last _add_key call of the __init__ in progress
    rot,             \* history: the run of direct rotate_key calls in progress
    pc,              \* get_response: "idle", "loop" (before an attempt) or "done"
    call,            \* get_response: its provider argument, the loop variable, and
                     \* (history) key_indices as they were on entry
    tried,           \* history: the adapter invocations of the call
    outcomes,        \* history: how each adapter invocation ended
    result,          \* the value get_response returned
    raw_text,        \* the reply text handed to the parsers
    chunks,          \* the grounding chunks of the reply
    app_result,      \* what extract_json_and_sources returned or raised
    gw_result,       \* what _parse_json_result returned or raised
    sheet,           \* the remote worksheet: its rows, row 1 first
    sheet_via,       \* SheetLogger: "new" before construction, then how self.sheet
                     \* was opened: "file", "secrets" or "none"
    use_sheets,      \* SheetLogger.use_sheets
    csv_file,        \* leads.csv: whether it exists, and its lines
    turn,            \* per session: number of upsert_lead calls begun
    upc,             \* per session: position of its upsert_lead call
    loc,             \* per session: row_data and col1 of its upsert_lead call
    done,            \* history: the upsert_lead call that ended last
    remote_calls,    \* history: number of calls made on the worksheet
    in_state,        \* the keys present in st.session_state
    session_id,      \* st.session_state.session_id
    start_time,      \* st.session_state.start_time
    conversation_log, \* st.session_state.conversation_log
    user_input_log,  \* st.session_state.user_input_log
    messages,        \* st.session_state.messages
    now,             \* the clock: number of script runs started
    apc,             \* app.py: position of the script run, "idle" after its end
    widget_input,    \* what the input widgets return in the run (0: nothing)
    reply,           \* answer of the generation step of the run
    snapshots        \* history: the get_lead_data results handed to upsert_lead

accVars == <<user_details, last_extracted, repeated, ncalls, observed>>
kmVars == <<keys, key_indices, loading, last_add, rot>>
gwVars == <<pc, call, tried, outcomes, result>>
parseVars == <<raw_text, chunks, app_result, gw_result>>
sinkVars == <<sheet, sheet_via, use_sheets, csv_file, turn, upc, loc, done, remote_calls>>
appVars == <<in_state, session_id, start_time, conversation_log, user_input_log, messages,
             now, apc, widget_input, reply, snapshots>>
vars == <<user_details, last_extracted, repeated, ncalls, observed, keys, key_indices, loading,
          last_add, rot, pc, call, tried, outcomes, result, raw_text, chunks, app_result, gw_result,
          sheet, sheet_via, use_sheets, csv_file, turn, upc, loc, done, remote_calls,
          in_state, session_id, start_time, conversation_log, user_input_log, messages,
          now, apc, widget_input, reply, snapshots>>

----------------------------------------------------------------------------
\* Bounds of the model.

\* Longest string the model draws as an extracted value.
MaxLen == 1
\* Number of update_from_llm calls in one behaviour.
MaxCalls == 3

----------------------------------------------------------------------------
\* Python values and strings.

None == [t |-> "none"]
StrVal(s) == [t |-> "str", s |-> s]
IntVal(n) == [t |-> "int", n |-> n]

\* Characters the drawn strings are made of: two letters, the separator and
\* the whitespace that str.strip() removes.
Alphabet == {"U", "D", ",", " "}

RECURSIVE StringsUpTo(_)
StringsUpTo(n) ==
    IF n = 0 THEN {<<>>}
    ELSE LET shorter == StringsUpTo(n - 1)
         IN  shorter \cup {Append(s, c) : s \in {x \in shorter : Len(x) = n - 1}, c \in Alphabet}

DigitChar == <<"0", "1", "2", "3", "4", "5", "6", "7", "8", "9">>

\* str(v) for the values the accumulator converts (a str is returned as it is,
\* an int in 0..9 as its decimal digit).
PyStr(v) ==
    IF v.t = "str" THEN v.s
    ELSE IF v.t = "int" THEN <<DigitChar[v.n + 1]>>
    ELSE <<"N", "o", "n", "e">>

\* bool(v): None, "" and 0 are falsy.
Truthy(v) ==
    IF v.t = "str" THEN v.s # <<>>
    ELSE IF v.t = "int" THEN v.n # 0
    ELSE IF v.t = "list" THEN v.items # <<>>
    ELSE FALSE

\* s.split(','): the pieces between commas; always at least one piece.
RECURSIVE SplitComma(_)
SplitComma(s) ==
    IF \A i \in 1..Len(s) : s[i] # ","
    THEN <<s>>
    ELSE LET i == CHOOSE k \in 1..Len(s) : s[k] = "," /\ \A j \in 1..(k - 1) : s[j] # ","
         IN  <<SubSeq(s, 1, i - 1)>> \o SplitComma(SubSeq(s, i + 1, Len(s)))

\* s.strip(): leading and trailing whitespace removed.
RECURSIVE Strip(_)
Strip(s) ==
    IF s = <<>> THEN s
    ELSE IF Head(s) = " " THEN Strip(Tail(s))
    ELSE IF s[Len(s)] = " " THEN Strip(SubSeq(s, 1, Len(s) - 1))
    ELSE s

\* [x.strip() for x in str(v).split(',')]
TokenList(v) == LET pieces == SplitComma(PyStr(v)) IN [i \in 1..Len(pieces) |-> Strip(pieces[i])]

\* ", ".join(list)
RECURSIVE JoinCommaSpace(_)
JoinCommaSpace(list) ==
    IF list = <<>> THEN <<>>
    ELSE IF Len(list) = 1 THEN list[1]
    ELSE list[1] \o <<",", " ">> \o JoinCommaSpace(Tail(list))

Contains(list, x) == \E i \in 1..Len(list) : list[i] = x

----------------------------------------------------------------------------
\* Reply texts and their JSON decoding.
\*
\* A reply text is a sequence of lexemes. The punctuation lexemes are single
\* characters; "1" is a digit, "null" the JSON literal, "x" a word of prose
\* (never part of a JSON document); a lexeme of Members is one whole member of
\* a JSON object, key and value. "FENCE_JSON" and "FENCE" are the code-fence
\* markers (three backquotes followed by json, three backquotes alone);
\* "user_options:" and "videos:" are those words of prose.

ListVal(items) == [t |-> "list", items |-> items]

Members == {"mAns", "mAnsEmpty", "mCountry", "mSentiment", "mOpts", "mVideos"}

MemberKey ==
    [mAns |-> "answer", mAnsEmpty |-> "answer", mCountry |-> "Country",
     mSentiment |-> "Sentiment", mOpts |-> "user_options", mVideos |-> "videos"]

MemberVal ==
    [mAns |-> StrVal(<<"h", "i">>), mAnsEmpty |-> StrVal(<<>>),
     mCountry |-> StrVal(<<"U">>), mSentiment |-> StrVal(<<"P", "o", "s">>),
     mOpts |-> ListVal(<<"Yes">>), mVideos |-> ListVal(<<"youtu.be/v">>)]

\* The parts of s between the commas that are inside no bracket or brace.
RECURSIVE SplitTop(_, _, _)
SplitTop(s, depth, part) ==
    IF s = <<>> THEN <<part>>
    ELSE LET c == Head(s)
         IN  IF c = "," /\ depth = 0
             THEN <<part>> \o SplitTop(Tail(s), 0, <<>>)
             ELSE SplitTop(Tail(s),
                           IF c \in {"[", "{"} THEN depth + 1
                           ELSE IF c \in {"]", "}"} THEN depth - 1
                           ELSE depth,
                           Append(part, c))

Inner(s) == SubSeq(s, 2, Len(s) - 1)

\* The kind of JSON value s is the text of: "object", "list", "number",
\* "null", or "invalid" when json.loads(s) raises.
RECURSIVE JsonKind(_)
JsonKind(s) ==
    IF s = <<>> THEN "invalid"
    ELSE IF \A i \in 1..Len(s) : s[i] = "1" THEN "number"
    ELSE IF s = <<"null">> THEN "null"
    ELSE IF Len(s) >= 2 /\ s[1] = "[" /\ s[Len(s)] = "]"
         THEN IF Inner(s) = <<>> THEN "list"
              ELSE LET parts == SplitTop(Inner(s), 0, <<>>)
                   IN  IF \A i \in 1..Len(parts) : JsonKind(parts[i]) # "invalid"
                       THEN "list" ELSE "invalid"
    ELSE IF Len(s) >= 2 /\ s[1] = "{" /\ s[Len(s)] = "}"
         THEN IF Inner(s) = <<>> THEN "object"
              ELSE LET parts == SplitTop(Inner(s), 0, <<>>)
                   IN  IF \A i \in 1..Len(parts) :
                              Len(parts[i]) = 1 /\ parts[i][1] \in Members
                       THEN "object" ELSE "invalid"
    ELSE "invalid"

\* The dict json.loads gives for an object text: key -> value, the last
\* member of a key winning.
ObjectOf(s) ==
    LET ms == Inner(s)
        idx == {i \in 1..Len(ms) : ms[i] \in Members}
        ks == {MemberKey[ms[i]] : i \in idx}
        last(k) == CHOOSE i \in idx : MemberKey[ms[i]] = k
                        /\ \A j \in idx : MemberKey[ms[j]] = k => j <= i
    IN  [k \in ks |-> MemberVal[ms[last(k)]]]

EmptyDict == <<>>
EmptyList == <<>>

\* dict.get(key, default)
DictGet(d, k, default) == IF k \in DOMAIN d THEN d[k] ELSE default

\* re.search(r'\{.*\}', text, re.DOTALL): the span from the first "{" to the
\* last "}" after it, when there is one.
HasBraceSpan(text) ==
    \E i, j \in 1..Len(text) : i < j /\ text[i] = "{" /\ text[j] = "}"

BraceSpan(text) ==
    LET first == CHOOSE i \in 1..Len(text) :
                    text[i] = "{" /\ \A k \in 1..(i - 1) : text[k] # "{"
        last == CHOOSE j \in 1..Len(text) :
                    text[j] = "}" /\ \A k \in (j + 1)..Len(text) : text[k] # "}"
    IN  SubSeq(text, first, last)

\* json.loads(s) inside a try whose handler leaves data = {}: the decoded
\* value (its kind, and its dict when it is an object), or the empty dict.
LoadsOrEmpty(s) ==
    LET kind == JsonKind(s)
    IN  IF kind = "invalid" THEN [kind |-> "object", dict |-> EmptyDict]
        ELSE IF kind = "object" THEN [kind |-> "object", dict |-> ObjectOf(s)]
        ELSE [kind |-> kind, dict |-> EmptyDict]

\* Mutant of LeadInfo: no lead field is read from the decoded object.
LeadInfoNone(d) == [Country |-> None, Sentiment |-> None]

\* The ten lead fields the parsers read, as far as the model carries them.
LeadInfo(d) ==
    [Country |-> DictGet(d, "Country", None), Sentiment |-> DictGet(d, "Sentiment", None)]

\* The message of the AttributeError that data.get raises on a non-dict.
PyTypeName == [number |-> "int", null |-> "NoneType", list |-> "list", object |-> "dict"]
AttributeErrorMsg(kind) == <<PyTypeName[kind], "object has no attribute 'get'">>

\* Mutant of ParseJsonResult: a decoded value that is not an object is
\* replaced by the empty dict before the fields are read.
ParseJsonResultGuarded(text) ==
    LET data == IF HasBraceSpan(text) THEN LoadsOrEmpty(BraceSpan(text))
                ELSE LoadsOrEmpty(text)
        d == IF data.kind = "object" THEN data.dict ELSE EmptyDict
    IN  [raised |-> FALSE,
         answer |-> DictGet(d, "answer", StrVal(text)),
         user_options |-> DictGet(d, "user_options", ListVal(EmptyList)),
         sources |-> EmptyList,
         videos |-> DictGet(d, "videos", ListVal(EmptyList)),
         lead_info |-> LeadInfo(d)]

\* LLMClient._parse_json_result(text): the 5-tuple, or the exception raised.
ParseJsonResult(text) ==
    LET data == IF HasBraceSpan(text) THEN LoadsOrEmpty(BraceSpan(text))
                ELSE LoadsOrEmpty(text)
    IN  IF data.kind # "object"
        THEN [raised |-> TRUE, error |-> AttributeErrorMsg(data.kind)]
        ELSE [raised |-> FALSE,
              answer |-> DictGet(data.dict, "answer", StrVal(text)),
              user_options |-> DictGet(data.dict, "user_options", ListVal(EmptyList)),
              sources |-> EmptyList,
              videos |-> DictGet(data.dict, "videos", ListVal(EmptyList)),
              lead_info |-> LeadInfo(data.dict)]

\* re.sub(marker + '.*', '', text, flags=re.DOTALL): the text before the
\* first occurrence of the marker.
RECURSIVE CutFrom(_, _)
CutFrom(text, marker) ==
    IF text = <<>> \/ Head(text) = marker THEN <<>>
    ELSE <<Head(text)>> \o CutFrom(Tail(text), marker)

\* text.replace(marker, ''): every occurrence removed.
Without(text, marker) == SelectSeq(text, LAMBDA c : c # marker)

\* The fallback answer of extract_json_and_sources (app.py:296-298).
FallbackAnswer(text) ==
    LET a1 == Strip(CutFrom(text, "user_options:"))
        a2 == Strip(CutFrom(a1, "videos:"))
    IN  Strip(Without(Without(a2, "FENCE_JSON"), "FENCE"))

\* extract_json_and_sources(response) of app.py, response carrying the text
\* and the grounding chunks (title, url) of its first candidate.
ExtractJsonAndSources(text, grounding) ==
    LET data == IF HasBraceSpan(text) THEN LoadsOrEmpty(BraceSpan(text))
                ELSE [kind |-> "object", dict |-> EmptyDict]
    IN  IF data.kind # "object"
        THEN [raised |-> TRUE, error |-> AttributeErrorMsg(data.kind)]
        ELSE LET answer == DictGet(data.dict, "answer", None)
             IN  [raised |-> FALSE,
                  answer |-> IF Truthy(answer) THEN answer
                             ELSE StrVal(FallbackAnswer(text)),
                  user_options |-> DictGet(data.dict, "user_options", ListVal(EmptyList)),
                  sources |-> grounding,
                  videos |-> DictGet(data.dict, "videos", ListVal(EmptyList)),
                  lead_info |-> LeadInfo(data.dict)]

----------------------------------------------------------------------------
\* SessionTracker: the lead profile and its merge (src/utils.py).

\* Two of the ten profile fields: one that starts unset and one that starts
\* with a default. The code treats every field alike.
Fields == {"Country", "Sentiment"}

Neutral == <<"N", "e", "u", "t", "r", "a", "l">>
Positive == <<"P", "o", "s">>

\* The literals update_from_llm refuses as values.
Placeholders ==
    { <<"n", "u", "l", "l">>, <<"N", "o", "n", "e">>, <<>>,
      <<"N", "/", "A">>, <<"u", "n", "k", "n", "o", "w", "n">> }

\* Strings longer than MaxLen that the model always supplies: a repeated
\* token, two tokens without and with a space after the comma, an untrimmed
\* token, an empty token between commas, a new token before a known one.
LongStrings ==
    { <<"U", ",", "U">>, <<"U", ",", "D">>, <<"D", ",", "U">>, <<" ", "U", " ">>,
      <<"U", ",", " ", "D">>, <<"U", ",", ",", "D">>, <<"G", ",", " ", "U">> }

\* Values the model supplies for an extracted field: absent, every string up
\* to MaxLen, the longer strings above, the placeholder literals, and the
\* JSON numbers 0 and 7.
ExtractedValues ==
    {None} \cup {StrVal(s) : s \in StringsUpTo(MaxLen) \cup LongStrings \cup Placeholders}
           \cup {IntVal(0), IntVal(7)}

SentimentValues == {StrVal(Positive), StrVal(<<"n", "u", "l", "l">>)}

\* The extraction of one turn: lead_info with one field filled in (the other
\* None), or with both.
Extractions ==
    {[Country |-> c, Sentiment |-> None] : c \in ExtractedValues}
        \cup {[Country |-> None, Sentiment |-> s] : s \in SentimentValues}
        \cup {[Country |-> StrVal(<<"U">>), Sentiment |-> StrVal(Positive)]}

\* SessionTracker.__init__: the profile of a fresh session.
FreshDetails == [Country |-> None, Sentiment |-> StrVal(Neutral)]

\* Mutant of Usable: the placeholder literals are not filtered out.
UsableAnyTruthy(new_val) == Truthy(new_val)

\* "new_val and new_val not in [...]"
Usable(new_val) ==
    Truthy(new_val) /\ ~(new_val.t = "str" /\ new_val.s \in Placeholders)

\* The loop over new_list: each non-empty item not yet in the list is appended.
RECURSIVE AppendNew(_, _)
AppendNew(current_list, new_list) ==
    IF new_list = <<>> THEN current_list
    ELSE LET item == Head(new_list)
         IN  IF item # <<>> /\ ~Contains(current_list, item)
             THEN AppendNew(Append(current_list, item), Tail(new_list))
             ELSE AppendNew(current_list, Tail(new_list))

\* Mutant of MergeField: the membership test is dropped, every item is appended.
MergeFieldNoDedup(current_val, new_val) ==
    IF ~Usable(new_val) THEN current_val
    ELSE IF Truthy(current_val)
         THEN StrVal(JoinCommaSpace(TokenList(current_val) \o TokenList(new_val)))
         ELSE new_val

\* Mutant of MergeField: a usable value replaces the stored one.
MergeFieldOverwrite(current_val, new_val) ==
    IF ~Usable(new_val) THEN current_val ELSE new_val

\* The body of the loop of update_from_llm for one key.
MergeField(current_val, new_val) ==
    IF ~Usable(new_val) THEN current_val
    ELSE IF Truthy(current_val)
         THEN LET current_list == TokenList(current_val)
                  merged == AppendNew(current_list, TokenList(new_val))
                  changed == Len(merged) > Len(current_list)
              IN  IF changed THEN StrVal(JoinCommaSpace(merged)) ELSE current_val
         ELSE new_val

\* update_from_llm as a function of the profile and the extraction.
UpdateDetails(details, extracted_data) ==
    [key \in Fields |-> MergeField(details[key], extracted_data[key])]

AccStart ==
    /\ user_details = FreshDetails
    /\ last_extracted = [key \in Fields |-> None]
    /\ repeated = FALSE
    /\ ncalls = 0
    /\ observed = {}

UpdateFromLlm ==
    /\ ncalls < MaxCalls
    /\ \E extracted_data \in Extractions :
          /\ user_details' = UpdateDetails(user_details, extracted_data)
          /\ last_extracted' = extracted_data
          /\ repeated' = (ncalls >= 1 /\ extracted_data = last_extracted)
          /\ observed' = observed \cup {key \in Fields : Usable(extracted_data[key])}
    /\ ncalls' = ncalls + 1
    /\ UNCHANGED <<kmVars, gwVars, parseVars, sinkVars, appVars>>

----------------------------------------------------------------------------
\* KeyManager: the credential pool (src/utils.py).

Providers == {"google", "groq", "cerebras"}

\* The provider arguments the model passes: the three known ones and one the
\* pool does not know.
ProviderArgs == Providers \cup {"other"}

\* The key strings the secrets and the sidebar input supply, per provider
\* ("" is what an empty line of the input gives).
KeyInputs ==
    [google |-> {"", "g1", "g2", "g3"}, groq |-> {"q1", "q2"}, cerebras |-> {"c1"}]

\* Python's None where a key is expected.
NoKey == "None"

\* Mutant of AddKeyToList: the key is appended without the membership test.
AddKeyToListNoCheck(list, key) == IF key # "" THEN Append(list, key) ELSE list

\* _add_key on one provider's list.
AddKeyToList(list, key) ==
    IF key # "" /\ ~Contains(list, key) THEN Append(list, key) ELSE list

\* self.keys.get(provider), None read as the empty list.
KeysOf(ks, provider) == IF provider \in DOMAIN ks THEN ks[provider] ELSE <<>>

\* st.session_state.key_indices.get(provider, 0)
IndexOf(idx, provider) == IF provider \in DOMAIN idx THEN idx[provider] ELSE 0

\* get_current_key(provider)
GetCurrentKey(ks, idx, provider) ==
    IF KeysOf(ks, provider) = <<>> THEN NoKey
    ELSE KeysOf(ks, provider)[(IndexOf(idx, provider) % Len(KeysOf(ks, provider))) + 1]

\* Mutant of RotatedIndices: the cursor is left where it is.
RotatedIndicesStuck(ks, idx, provider) == idx

\* Mutant of RotatedIndices: the cursor moves without wrapping at the end of the list.
RotatedIndicesNoWrap(ks, idx, provider) ==
    IF KeysOf(ks, provider) = <<>> THEN idx
    ELSE [idx EXCEPT ![provider] =
             IF IndexOf(idx, provider) + 1 >= Len(KeysOf(ks, provider))
             THEN Len(KeysOf(ks, provider)) - 1
             ELSE IndexOf(idx, provider) + 1]

\* The key_indices that rotate_key(provider) leaves.
RotatedIndices(ks, idx, provider) ==
    IF KeysOf(ks, provider) = <<>> THEN idx
    ELSE [idx EXCEPT ![provider] = (IndexOf(idx, provider) + 1) % Len(KeysOf(ks, provider))]

NoAdd == [provider |-> "none", key |-> "", before |-> <<>>]

NoRun == [provider |-> "none", start |-> NoKey, before |-> 0, returned |-> <<>>]

KmStart ==
    /\ keys = [p \in Providers |-> <<>>]
    /\ key_indices = [p \in Providers |-> 0]
    /\ loading = TRUE
    /\ last_add = NoAdd
    /\ rot = NoRun

\* KeyManager.__init__: one _add_key call of _load_from_secrets or _load_from_input.
AddKey ==
    /\ loading
    /\ \E provider \in Providers : \E key \in KeyInputs[provider] :
          /\ keys' = [keys EXCEPT ![provider] = AddKeyToList(@, key)]
          /\ last_add' = [provider |-> provider, key |-> key, before |-> keys]
    /\ UNCHANGED <<key_indices, loading, rot, accVars, gwVars, parseVars, sinkVars, appVars>>

\* KeyManager.__init__ returns.
FinishInit ==
    /\ loading
    /\ loading' = FALSE
    /\ last_add' = NoAdd
    /\ UNCHANGED <<keys, key_indices, rot, accVars, gwVars, parseVars, sinkVars, appVars>>

\* A new KeyManager is constructed in the same session (a script rerun): the
\* lists start empty again, key_indices is already in the session state and
\* is kept.
NewKeyManager ==
    /\ ~loading
    /\ pc = "idle"
    /\ keys' = [p \in Providers |-> <<>>]
    /\ loading' = TRUE
    /\ rot' = NoRun
    /\ last_add' = NoAdd
    /\ UNCHANGED <<key_indices, accVars, gwVars, parseVars, sinkVars, appVars>>

\* rotate_key(provider) called on the pool directly. rot records the run of
\* consecutive rotations of one provider: the key that was current when the
\* run began, the index before the last rotation, and the keys returned.
RotateKey ==
    /\ ~loading
    /\ pc = "idle"
    /\ \E provider \in ProviderArgs :
          LET n == Len(KeysOf(keys, provider))
              next == RotatedIndices(keys, key_indices, provider)
              ret == GetCurrentKey(keys, next, provider)
              goesOn == rot.provider = provider /\ Len(rot.returned) < n
          IN  /\ key_indices' = next
              /\ rot' = [provider |-> provider,
                         start |-> IF goesOn THEN rot.start
                                   ELSE GetCurrentKey(keys, key_indices, provider),
                         before |-> IndexOf(key_indices, provider),
                         returned |-> IF goesOn THEN Append(rot.returned, ret) ELSE <<ret>>]
    /\ UNCHANGED <<keys, last_add, loading, accVars, gwVars, parseVars, sinkVars, appVars>>

----------------------------------------------------------------------------
\* LLMClient.get_response: the gateway (src/utils.py).

max_retries == 2

KnownProviders == {"google", "groq", "cerebras"}

\* What an adapter raises: the text of the exception, as words.
ErrorMessages ==
    { <<"429", "Too Many Requests">>, <<"Quota", "exceeded">>, <<"RESOURCE_EXHAUSTED">>,
      <<"401", "invalid key">>, <<"Resource", "exhausted">> }

\* word.lower() for the words of the messages.
LowerWord(w) ==
    CASE w = "Quota" -> "quota"
      [] w = "RESOURCE_EXHAUSTED" -> "resource_exhausted"
      [] w = "Resource" -> "resource"
      [] w = "Too Many Requests" -> "too many requests"
      [] w = "NoneType" -> "nonetype"
      [] OTHER -> w

\* "429" in error_str or "quota" in error_str.lower()
\* or "resource_exhausted" in error_str.lower()
IsRateLimit(error_str) ==
    \/ Contains(error_str, "429")
    \/ \E i \in 1..Len(error_str) : LowerWord(error_str[i]) = "quota"
    \/ \E i \in 1..Len(error_str) : LowerWord(error_str[i]) = "resource_exhausted"

\* The reply texts the adapters of the gateway model receive.
GatewayReplies ==
    { <<"{", "mAns", ",", "mCountry", "}">>, <<"x">>, <<"1">>, <<"{", "x", "}">> }

EmptyDictVal == [t |-> "dict", items |-> <<>>]
NoLeadInfo == [Country |-> [t |-> "absent"], Sentiment |-> [t |-> "absent"]]

\* The 5-tuple get_response returns.
Tuple5(answer, user_options, sources, videos, lead_info) ==
    [answer |-> answer, user_options |-> user_options, sources |-> sources,
     videos |-> videos, lead_info |-> lead_info]

\* A result that carries a message only: (msg, {}, [], [], {}).
MessageResult(msg) ==
    Tuple5(StrVal(msg), EmptyDictVal, EmptyList, ListVal(EmptyList), NoLeadInfo)

NoKeyMsg == <<"No API Key found for this provider. Please add one in Settings.">>
QuotaMsg == <<"Quota Exhausted on all keys. Please try another provider.">>
ErrorMsg(error_str) == <<"Error: ">> \o error_str
UnknownProviderMsg(provider) == <<"Unknown provider: ", provider>>

NoResult == MessageResult(<<>>)
NoCall == [provider |-> "none", attempt |-> 0, entry |-> <<>>]

GwStart ==
    /\ pc = "idle"
    /\ call = NoCall
    /\ tried = <<>>
    /\ outcomes = <<>>
    /\ result = NoResult

\* get_response(provider, ...) is entered.
StartCall ==
    /\ ~loading
    /\ pc = "idle"
    /\ \E provider \in ProviderArgs :
          call' = [provider |-> provider, attempt |-> 0, entry |-> key_indices]
    /\ pc' = "loop"
    /\ tried' = <<>>
    /\ outcomes' = <<>>
    /\ result' = NoResult
    /\ rot' = NoRun
    /\ UNCHANGED <<keys, last_add, key_indices, loading, accVars, parseVars, sinkVars, appVars>>

\* The adapter invocation of the current iteration, as the history keeps it:
\* the provider and key passed, the position of the key in the provider's
\* list, and the provider's cursor at that moment.
Invocation ==
    [provider |-> call.provider,
     key |-> GetCurrentKey(keys, key_indices, call.provider),
     index |-> IndexOf(key_indices, call.provider) % Len(KeysOf(keys, call.provider)),
     cursor |-> IndexOf(key_indices, call.provider)]

\* Mutant of OnException: every failure rotates and retries.
OnExceptionAlwaysRetry(error_str) ==
    /\ outcomes' = Append(outcomes, [kind |-> "transient", error |-> error_str])
    /\ key_indices' = RotatedIndices(keys, key_indices, call.provider)
    /\ IF call.attempt + 1 < max_retries
       THEN /\ call' = [call EXCEPT !.attempt = @ + 1]
            /\ UNCHANGED <<pc, result>>
       ELSE /\ result' = MessageResult(QuotaMsg)
            /\ pc' = "done"
            /\ UNCHANGED call

\* Mutant of OnException: the loop goes on after the last attempt of the budget.
OnExceptionUnbounded(error_str) ==
    IF IsRateLimit(error_str)
    THEN /\ outcomes' = Append(outcomes, [kind |-> "transient", error |-> error_str])
         /\ key_indices' = RotatedIndices(keys, key_indices, call.provider)
         /\ IF call.attempt + 1 < max_retries + 1
            THEN /\ call' = [call EXCEPT !.attempt = @ + 1]
                 /\ UNCHANGED <<pc, result>>
            ELSE /\ result' = MessageResult(QuotaMsg)
                 /\ pc' = "done"
                 /\ UNCHANGED call
    ELSE /\ outcomes' = Append(outcomes, [kind |-> "permanent", error |-> error_str])
         /\ result' = MessageResult(ErrorMsg(error_str))
         /\ pc' = "done"
         /\ UNCHANGED <<key_indices, call>>

\* The except clause of get_response, and the return after the loop when the
\* failed attempt was the last of the budget.
OnException(error_str) ==
    IF IsRateLimit(error_str)
    THEN /\ outcomes' = Append(outcomes, [kind |-> "transient", error |-> error_str])
         /\ key_indices' = RotatedIndices(keys, key_indices, call.provider)
         /\ IF call.attempt + 1 < max_retries
            THEN /\ call' = [call EXCEPT !.attempt = @ + 1]
                 /\ UNCHANGED <<pc, result>>
            ELSE /\ result' = MessageResult(QuotaMsg)
                 /\ pc' = "done"
                 /\ UNCHANGED call
    ELSE /\ outcomes' = Append(outcomes, [kind |-> "permanent", error |-> error_str])
         /\ result' = MessageResult(ErrorMsg(error_str))
         /\ pc' = "done"
         /\ UNCHANGED <<key_indices, call>>

\* Mutant of NoKeyReturn: without a key the cursor is rotated before returning.
NoKeyReturnRotating ==
    /\ pc = "loop"
    /\ GetCurrentKey(keys, key_indices, call.provider) = NoKey
    /\ result' = MessageResult(NoKeyMsg)
    /\ pc' = "done"
    /\ key_indices' = [p \in DOMAIN key_indices |-> (key_indices[p] + 1) % 3]
    /\ UNCHANGED <<keys, last_add, loading, rot, call, tried, outcomes, accVars, parseVars, sinkVars, appVars>>

\* An iteration that finds no key: the no-credential notice is returned.
NoKeyReturn ==
    /\ pc = "loop"
    /\ GetCurrentKey(keys, key_indices, call.provider) = NoKey
    /\ result' = MessageResult(NoKeyMsg)
    /\ pc' = "done"
    /\ UNCHANGED <<keys, last_add, key_indices, loading, rot, call, tried, outcomes, accVars, parseVars, sinkVars, appVars>>

\* An iteration whose adapter receives a reply: _fetch_google or
\* _fetch_openai_compatible hands the text to _parse_json_result, whose
\* exception, if any, reaches the except clause of get_response.
AdapterReplies ==
    /\ pc = "loop"
    /\ GetCurrentKey(keys, key_indices, call.provider) # NoKey
    /\ IF call.provider \in KnownProviders
       THEN /\ tried' = Append(tried, Invocation)
            /\ \E text \in GatewayReplies :
                  LET parsed == ParseJsonResult(text)
                  IN  IF parsed.raised
                      THEN OnException(parsed.error)
                      ELSE /\ outcomes' = Append(outcomes, [kind |-> "ok", error |-> <<>>])
                           /\ result' = Tuple5(parsed.answer, parsed.user_options,
                                               parsed.sources, parsed.videos,
                                               parsed.lead_info)
                           /\ pc' = "done"
                           /\ UNCHANGED <<key_indices, call>>
       ELSE /\ result' = MessageResult(UnknownProviderMsg(call.provider))
            /\ pc' = "done"
            /\ UNCHANGED <<key_indices, call, tried, outcomes>>
    /\ UNCHANGED <<keys, last_add, loading, rot, accVars, parseVars, sinkVars, appVars>>

\* An iteration whose adapter raises (the provider call fails).
AdapterRaises ==
    /\ pc = "loop"
    /\ GetCurrentKey(keys, key_indices, call.provider) # NoKey
    /\ call.provider \in KnownProviders
    /\ tried' = Append(tried, Invocation)
    /\ \E error_str \in ErrorMessages : OnException(error_str)
    /\ UNCHANGED <<keys, last_add, loading, rot, accVars, parseVars, sinkVars, appVars>>

\* The caller takes the result; the client is ready for the next call.
Return ==
    /\ pc = "done"
    /\ pc' = "idle"
    /\ call' = NoCall
    /\ tried' = <<>>
    /\ outcomes' = <<>>
    /\ result' = NoResult
    /\ UNCHANGED <<kmVars, accVars, parseVars, sinkVars, appVars>>

----------------------------------------------------------------------------
\* The two reply parsers applied to one reply (src/app.py, src/utils.py).

\* Longest reply text the model draws from TextAlphabet.
MaxTextLen == 3

TextAlphabet == {"{", "}", "[", "]", ",", "1", "null", "x", "mAns"}

RECURSIVE TextsUpTo(_)
TextsUpTo(n) ==
    IF n = 0 THEN {<<>>}
    ELSE LET shorter == TextsUpTo(n - 1)
         IN  shorter \cup {Append(s, c) : s \in {x \in shorter : Len(x) = n - 1},
                                          c \in TextAlphabet}

\* Longer replies the model always supplies: an object in prose, an object in
\* a code fence, two objects, an object with an empty answer, an object
\* without answer, prose with the tails the fallback cuts, a nested list.
LongTexts ==
    { <<"x", "{", "mAns", ",", "mCountry", "}", "x">>,
      <<"x", "FENCE_JSON", "{", "mAns", ",", "mCountry", ",", "mSentiment", "}", "FENCE">>,
      <<"{", "mAns", "}", "x", "{", "mCountry", "}">>,
      <<"{", "mAnsEmpty", ",", "mCountry", "}">>,
      <<"x", "{", "mCountry", "}">>,
      <<"{", "mAns", ",", "mOpts", ",", "mVideos", "}">>,
      <<"x", "user_options:", "x", "videos:", "x">>,
      <<"FENCE_JSON", "x", "FENCE", "videos:", "x">>,
      <<"[", "1", ",", "[", "]", "]">>,
      <<"[", "{", "mAns", "}", "]">> }

Texts == TextsUpTo(MaxTextLen) \cup LongTexts

ChunkLists == {<<>>, <<[title |-> "t1", url |-> "u1"]>>}

NotRun == [ran |-> FALSE]
Ran(out) == [ran |-> TRUE, out |-> out]

ParseStart ==
    /\ raw_text = <<>>
    /\ chunks = <<>>
    /\ app_result = NotRun
    /\ gw_result = NotRun

\* app.py hands the reply to extract_json_and_sources.
RunExtract ==
    /\ ~app_result.ran
    /\ app_result' = Ran(ExtractJsonAndSources(raw_text, chunks))
    /\ UNCHANGED <<raw_text, chunks, gw_result, accVars, kmVars, gwVars, sinkVars, appVars>>

\* An adapter of LLMClient hands the reply to _parse_json_result.
RunParse ==
    /\ ~gw_result.ran
    /\ gw_result' = Ran(ParseJsonResult(raw_text))
    /\ UNCHANGED <<raw_text, chunks, app_result, accVars, kmVars, gwVars, sinkVars, appVars>>

----------------------------------------------------------------------------
\* SheetLogger: the remote worksheet and the local CSV file (src/utils.py).
\*
\* A row of 15 cells is a record: Session_ID is the cell of column A, cells
\* stands for the cells of columns B..O. For a lead row cells is the number of
\* the session's snapshot the row was built from (the timestamp, the profile,
\* the time spent and the logs of that turn); for a header row it is 0.

\* Most upsert_lead calls the model runs for one session.
MaxTurns == 2

Sessions == {"s1", "s2"}

\* self.headers
HeaderRow == [Session_ID |-> "Session_ID", cells |-> 0]

\* A first row left by an older schema, and a row without content.
OldHeaderRow == [Session_ID |-> "Lead_ID", cells |-> 0]
EmptyRow == [Session_ID |-> "", cells |-> 0]

\* row_data of upsert_lead for the k-th snapshot of a session.
RowData(sid, k) == [Session_ID |-> sid, cells |-> k]

\* The worksheets the model starts from: empty, with the expected header, with
\* another first row, and with the header and the lead of an earlier session.
InitialSheets ==
    { <<>>, <<HeaderRow>>, <<OldHeaderRow>>, <<HeaderRow, RowData("s0", 1)>> }

\* sheet.col_values(1): column A down to its last cell that is not empty.
RECURSIVE TrimTrailingEmpty(_)
TrimTrailingEmpty(col) ==
    IF col # <<>> /\ col[Len(col)] = "" THEN TrimTrailingEmpty(SubSeq(col, 1, Len(col) - 1))
    ELSE col

ColValues(sh) == TrimTrailingEmpty([i \in 1..Len(sh) |-> sh[i].Session_ID])

\* sheet.update("A{r}:O{r}", [row]): row r is replaced, the sheet growing
\* with empty rows up to r when it is shorter.
SheetUpdate(sh, r, row) ==
    [i \in 1..(IF r > Len(sh) THEN r ELSE Len(sh)) |->
        IF i = r THEN row ELSE IF i <= Len(sh) THEN sh[i] ELSE EmptyRow]

\* Mutant of RowIndex: the 0-based list index is used as the row number.
RowIndexZeroBased(col1, sid) ==
    (CHOOSE i \in 1..Len(col1) :
        col1[i] = sid /\ \A j \in 1..(i - 1) : col1[j] # sid) - 1

\* col1.index(session_id) + 1: the row of the first cell holding the id.
RowIndex(col1, sid) ==
    CHOOSE i \in 1..Len(col1) :
        col1[i] = sid /\ \A j \in 1..(i - 1) : col1[j] # sid

\* next_row = len(col1) + 1
NextRow(col1) == Len(col1) + 1

\* ensure_headers(): returns at once unless use_sheets is set and there is a
\* sheet; otherwise row 1 is overwritten when it is empty or differs from
\* self.headers. flag is the value of self.use_sheets at the time of the call.
EnsureHeaders(flag, has_sheet, sh) ==
    IF ~flag \/ ~has_sheet THEN sh
    ELSE IF sh = <<>> \/ sh[1] = EmptyRow THEN SheetUpdate(sh, 1, HeaderRow)
    ELSE IF sh[1] # HeaderRow THEN SheetUpdate(sh, 1, HeaderRow)
    ELSE sh

NoCsv == [exists |-> FALSE, lines |-> <<>>]

\* pd.DataFrame(columns=self.headers).to_csv(self.csv_file): a file holding
\* the header line.
CreatedCsv(file) == IF file.exists THEN file ELSE [exists |-> TRUE, lines |-> <<HeaderRow>>]

\* Mutant of AppendToCsv: the header line is written on every append.
AppendToCsvWithHeader(file, row) ==
    [exists |-> TRUE,
     lines |-> (IF file.exists THEN file.lines ELSE <<>>) \o <<HeaderRow, row>>]

\* Mutant of AppendToCsv: the row is written twice.
AppendToCsvTwice(file, row) ==
    [exists |-> TRUE,
     lines |-> (IF file.exists THEN file.lines ELSE <<HeaderRow>>) \o <<row, row>>]

\* append_to_csv(row): the row is appended, after the header line when the
\* file did not exist.
AppendToCsv(file, row) ==
    [exists |-> TRUE,
     lines |-> (IF file.exists THEN file.lines ELSE <<HeaderRow>>) \o <<row>>]

\* Mutant of UpsertFallback: the row of a failed upsert is dropped.
UpsertFallbackDropped(file, row) == file

\* The except clause of upsert_lead.
UpsertFallback(file, row) == AppendToCsv(file, row)

\* Mutant of UseSheetsAfterUpsert: a call that raised switches the remote
\* store off.
UseSheetsOffAfterFailure(flag, raised) == flag /\ ~raised

\* self.use_sheets after an upsert_lead call on the worksheet: the method
\* reads the attribute and never assigns it, whether the call raised or not.
UseSheetsAfterUpsert(flag, raised) == flag

NoUpsert ==
    [kind |-> "none", session |-> "none", row |-> EmptyRow, index |-> 0,
     before |-> <<>>, csv_before |-> NoCsv]

NoLocals == [row_data |-> EmptyRow, col1 |-> <<>>]

SinkStart ==
    /\ sheet = <<>>
    /\ sheet_via = "new"
    /\ use_sheets = FALSE
    /\ csv_file = NoCsv
    /\ turn = [s \in Sessions |-> 0]
    /\ upc = [s \in Sessions |-> "idle"]
    /\ loc = [s \in Sessions |-> NoLocals]
    /\ done = NoUpsert
    /\ remote_calls = 0

\* SheetLogger.__init__. file_ok: credentials.json exists and the connection
\* through it succeeds; secret_ok: the secrets hold a service account and the
\* connection through it succeeds. The second path is tried only when the
\* first left use_sheets False, and calls ensure_headers before it sets
\* use_sheets.
NewSheetLogger ==
    /\ sheet_via = "new"
    /\ \E file_ok, secret_ok \in BOOLEAN :
          LET second == ~file_ok /\ secret_ok
          IN  /\ sheet_via' = IF file_ok THEN "file" ELSE IF second THEN "secrets" ELSE "none"
              /\ sheet' = IF second THEN EnsureHeaders(file_ok, TRUE, sheet) ELSE sheet
              /\ use_sheets' = (file_ok \/ second)
    /\ csv_file' = CreatedCsv(csv_file)
    /\ UNCHANGED <<turn, upc, loc, done, remote_calls, accVars, kmVars, gwVars, parseVars, appVars>>

\* An upsert_lead call that ended: what it did, its row, the row number it
\* wrote (0 when it wrote none), and the two stores as they were before.
Ended(kind, s, row, index) ==
    [kind |-> kind, session |-> s, row |-> row, index |-> index,
     before |-> sheet, csv_before |-> csv_file]

\* upsert_lead(data) up to its first call on the worksheet: row_data is built;
\* without use_sheets it is appended to the CSV file and the call returns.
UpsertLead(s) ==
    /\ sheet_via # "new"
    /\ upc[s] = "idle"
    /\ turn[s] < MaxTurns
    /\ turn' = [turn EXCEPT ![s] = @ + 1]
    /\ LET row_data == RowData(s, turn[s] + 1)
       IN  IF ~use_sheets
           THEN /\ csv_file' = AppendToCsv(csv_file, row_data)
                /\ done' = Ended("local", s, row_data, 0)
                /\ UNCHANGED <<upc, loc>>
           ELSE /\ upc' = [upc EXCEPT ![s] = "read"]
                /\ loc' = [loc EXCEPT ![s] = [row_data |-> row_data, col1 |-> <<>>]]
                /\ UNCHANGED <<csv_file, done>>
    /\ UNCHANGED <<sheet, sheet_via, use_sheets, remote_calls, accVars, kmVars, gwVars, parseVars, appVars>>

\* upsert_lead called while no other call is in progress.
UpsertLeadAlone(s) ==
    /\ \A t \in Sessions : upc[t] = "idle"
    /\ UpsertLead(s)

\* col1 = self.sheet.col_values(1): the column is read, or the call raises
\* and the except clause appends the row to the CSV file.
ReadColumn(s) ==
    /\ upc[s] = "read"
    /\ remote_calls' = remote_calls + 1
    /\ \/ /\ loc' = [loc EXCEPT ![s].col1 = ColValues(sheet)]
          /\ upc' = [upc EXCEPT ![s] = "write"]
          /\ UNCHANGED <<csv_file, done, use_sheets>>
       \/ /\ csv_file' = UpsertFallback(csv_file, loc[s].row_data)
          /\ done' = Ended("fallback", s, loc[s].row_data, 0)
          /\ upc' = [upc EXCEPT ![s] = "idle"]
          /\ use_sheets' = UseSheetsAfterUpsert(use_sheets, TRUE)
          /\ UNCHANGED loc
    /\ UNCHANGED <<sheet, sheet_via, turn, accVars, kmVars, gwVars, parseVars, appVars>>

\* The rest of the try block: the row with the session id is overwritten, or
\* the row is written at next_row; or self.sheet.update raises and the except
\* clause appends the row to the CSV file.
UpdateRange(s) ==
    /\ upc[s] = "write"
    /\ remote_calls' = remote_calls + 1
    /\ upc' = [upc EXCEPT ![s] = "idle"]
    /\ LET col1 == loc[s].col1
           row_data == loc[s].row_data
           known == Contains(col1, s)
           row_index == IF known THEN RowIndex(col1, s) ELSE NextRow(col1)
       IN  \/ /\ sheet' = SheetUpdate(sheet, row_index, row_data)
              /\ done' = Ended(IF known THEN "overwrite" ELSE "insert", s, row_data, row_index)
              /\ use_sheets' = UseSheetsAfterUpsert(use_sheets, FALSE)
              /\ UNCHANGED csv_file
           \/ /\ csv_file' = UpsertFallback(csv_file, row_data)
              /\ done' = Ended("fallback", s, row_data, 0)
              /\ use_sheets' = UseSheetsAfterUpsert(use_sheets, TRUE)
              /\ UNCHANGED sheet
    /\ UNCHANGED <<sheet_via, turn, loc, accVars, kmVars, gwVars, parseVars, appVars>>

----------------------------------------------------------------------------
\* The script of the app over the session state (src/app.py), with the
\* SessionTracker it constructs in every run (src/utils.py).

\* Number of messages a user submits in one behaviour.
MaxMessages == 3

\* The keys SessionTracker.__init__ looks for in st.session_state.
TrackerKeys ==
    {"start_time", "session_id", "conversation_log", "user_input_log", "user_details"}

\* Mutant of Missing: the key is taken as missing in every run.
MissingAlways(name, present) == TRUE

\* "name" not in st.session_state
Missing(name, present) == name \notin present

\* The message the assistant greets with.
Greeting == [role |-> "assistant", content |-> 0]

UserMessages(msgs) == SelectSeq(msgs, LAMBDA m : m.role = "user")

\* What get_gemini_response extracts in a turn: nothing (also after a failed
\* request, where lead_data is {}), a country, or a country and a sentiment.
TurnExtractions ==
    { [Country |-> None, Sentiment |-> None],
      [Country |-> StrVal(<<"U">>), Sentiment |-> None],
      [Country |-> StrVal(<<"D">>), Sentiment |-> StrVal(Positive)] }

NoReply == [answer |-> 0]

\* get_lead_data(): a copy of the profile with the session id, the time
\* spent and the two logs.
GetLeadData(details, sid, started, clock, log, inputs) ==
    [details |-> details, Session_ID |-> sid, Time_Spent |-> clock - started,
     Full_Conversation_History |-> log, User_Inputs_Only |-> inputs]

AppStart ==
    /\ in_state = {}
    /\ session_id = "none"
    /\ start_time = 0
    /\ conversation_log = <<>>
    /\ user_input_log = <<>>
    /\ messages = <<>>
    /\ now = 0
    /\ apc = "top"
    /\ widget_input = 0
    /\ reply = NoReply
    /\ snapshots = <<>>

\* The top of a script run: tracker = SessionTracker(), each key assigned
\* only when it is missing (uuid4 giving any id), then the same for messages.
ScriptTop ==
    /\ apc = "top"
    /\ now' = now + 1
    /\ start_time' = IF Missing("start_time", in_state) THEN now' ELSE start_time
    /\ \E id \in Sessions :
          session_id' = IF Missing("session_id", in_state) THEN id ELSE session_id
    /\ conversation_log' =
          IF Missing("conversation_log", in_state) THEN <<>> ELSE conversation_log
    /\ user_input_log' =
          IF Missing("user_input_log", in_state) THEN <<>> ELSE user_input_log
    /\ user_details' =
          IF Missing("user_details", in_state) THEN FreshDetails ELSE user_details
    /\ messages' = IF "messages" \notin in_state THEN <<Greeting>> ELSE messages
    /\ in_state' = in_state \cup TrackerKeys \cup {"messages"}
    /\ apc' = "input"
    /\ UNCHANGED <<widget_input, reply, snapshots, last_extracted, repeated, ncalls, observed,
                   kmVars, gwVars, parseVars, sinkVars>>

\* Sections A to C of the main loop and the test of section D: a value of an
\* input widget is appended as a user message and the script is rerun;
\* without one the run goes on to the generation step when the last message
\* is a user's, and ends otherwise.
InputHandling ==
    /\ apc = "input"
    /\ IF widget_input # 0
       THEN /\ messages' = Append(messages, [role |-> "user", content |-> widget_input])
            /\ apc' = "top"
       ELSE /\ apc' = IF messages[Len(messages)].role = "user" THEN "call" ELSE "idle"
            /\ UNCHANGED messages
    /\ widget_input' = 0
    /\ UNCHANGED <<in_state, session_id, start_time, conversation_log, user_input_log, now,
                   reply, snapshots, accVars, kmVars, gwVars, parseVars, sinkVars>>

\* The generation step up to the upsert: get_gemini_response on the last
\* message, update_from_llm, add_interaction, get_lead_data, upsert_lead (on
\* a logger without connection: the row is appended to the CSV file).
GenerationStep ==
    /\ apc = "call"
    /\ \E lead_data \in TurnExtractions :
          LET asked == messages[Len(messages)].content
              details == UpdateDetails(user_details, lead_data)
              log == Append(conversation_log, [user |-> asked, bot |-> asked])
              inputs == Append(user_input_log, asked)
              full_lead_data == GetLeadData(details, session_id, start_time, now, log, inputs)
          IN  /\ reply' = [answer |-> asked]
              /\ user_details' = details
              /\ conversation_log' = log
              /\ user_input_log' = inputs
              /\ snapshots' = Append(snapshots, full_lead_data)
              /\ csv_file' = AppendToCsv(csv_file, RowData(session_id, Len(log)))
    /\ apc' = "render"
    /\ UNCHANGED <<in_state, session_id, start_time, messages, now, widget_input,
                   last_extracted, repeated, ncalls, observed, kmVars, gwVars, parseVars,
                   sheet, sheet_via, use_sheets, turn, upc, loc, done, remote_calls>>

\* The rest of the generation step: the answer is rendered and appended to
\* the messages, and the script is rerun.
SaveToHistory ==
    /\ apc = "render"
    /\ messages' = Append(messages, [role |-> "assistant", content |-> reply.answer])
    /\ reply' = NoReply
    /\ apc' = "top"
    /\ UNCHANGED <<in_state, session_id, start_time, conversation_log, user_input_log, now,
                   widget_input, snapshots, accVars, kmVars, gwVars, parseVars, sinkVars>>

\* The user sends a message (chat input or suggestion button) after the run
\* ended: the script is run with the widget's value.
UserSubmits ==
    /\ apc = "idle"
    /\ Len(UserMessages(messages)) < MaxMessages
    /\ widget_input' = Len(UserMessages(messages)) + 1
    /\ apc' = "top"
    /\ UNCHANGED <<in_state, session_id, start_time, conversation_log, user_input_log,
                   messages, now, reply, snapshots, accVars, kmVars, gwVars, parseVars, sinkVars>>

\* The user sends a message while the generation step runs, the widgets
\* being on the page: the run is stopped at its next Streamlit call, which is
\* loader_placeholder.empty() while the request is in progress and
\* st.markdown(answer) after the upsert, and the script is run with the
\* widget's value.
UserSubmitsDuringRun ==
    /\ apc \in {"call", "render"}
    /\ Len(UserMessages(messages)) < MaxMessages
    /\ widget_input' = Len(UserMessages(messages)) + 1
    /\ reply' = NoReply
    /\ apc' = "top"
    /\ UNCHANGED <<in_state, session_id, start_time, conversation_log, user_input_log,
                   messages, now, snapshots, accVars, kmVars, gwVars, parseVars, sinkVars>>

----------------------------------------------------------------------------
\* Specifications.

\* The accumulator of one session.
AccInit == AccStart /\ KmStart /\ GwStart /\ ParseStart /\ SinkStart /\ AppStart
AccNext == UpdateFromLlm
SpecAcc == AccInit /\ [][AccNext]_vars

\* The credential pool, loaded and rotated directly.
KmInit == AccStart /\ KmStart /\ GwStart /\ ParseStart /\ SinkStart /\ AppStart
KmNext == AddKey \/ FinishInit \/ NewKeyManager \/ RotateKey
SpecKeys == KmInit /\ [][KmNext]_vars

\* The gateway over a loaded pool.
GwInit == AccStart /\ KmStart /\ GwStart /\ ParseStart /\ SinkStart /\ AppStart
GwNext ==
    \/ AddKey \/ FinishInit \/ NewKeyManager
    \/ StartCall \/ NoKeyReturn \/ AdapterReplies \/ AdapterRaises \/ Return
SpecGateway == GwInit /\ [][GwNext]_vars

\* The gateway, each started call being run to its return.
SpecGatewayFair ==
    SpecGateway /\ WF_vars(NoKeyReturn) /\ WF_vars(AdapterReplies \/ AdapterRaises)

\* The parsers on every reply text of the model.
ParseInit ==
    /\ AccStart /\ KmStart /\ GwStart /\ SinkStart /\ AppStart
    /\ raw_text \in Texts
    /\ chunks \in ChunkLists
    /\ app_result = NotRun
    /\ gw_result = NotRun
ParseNext == RunExtract \/ RunParse
SpecParse == ParseInit /\ [][ParseNext]_vars

\* The sink, the upserts of the sessions run one at a time.
SinkInit ==
    /\ AccStart /\ KmStart /\ GwStart /\ ParseStart /\ AppStart
    /\ sheet \in InitialSheets
    /\ sheet_via = "new"
    /\ use_sheets = FALSE
    /\ csv_file = NoCsv
    /\ turn = [s \in Sessions |-> 0]
    /\ upc = [s \in Sessions |-> "idle"]
    /\ loc = [s \in Sessions |-> NoLocals]
    /\ done = NoUpsert
    /\ remote_calls = 0
SinkNext ==
    \/ NewSheetLogger
    \/ \E s \in Sessions : UpsertLeadAlone(s) \/ ReadColumn(s) \/ UpdateRange(s)
SpecSink == SinkInit /\ [][SinkNext]_vars

\* The sink shared by sessions whose upserts run in different threads.
SinkConcNext ==
    \/ NewSheetLogger
    \/ \E s \in Sessions : UpsertLead(s) \/ ReadColumn(s) \/ UpdateRange(s)
SpecSinkConc == SinkInit /\ [][SinkConcNext]_vars

\* The app of one session, on a logger constructed without connection.
AppInit ==
    /\ AccStart /\ KmStart /\ GwStart /\ ParseStart /\ AppStart
    /\ sheet = <<>>
    /\ sheet_via = "none"
    /\ use_sheets = FALSE
    /\ csv_file = CreatedCsv(NoCsv)
    /\ turn = [s \in Sessions |-> 0]
    /\ upc = [s \in Sessions |-> "idle"]
    /\ loc = [s \in Sessions |-> NoLocals]
    /\ done = NoUpsert
    /\ remote_calls = 0
AppNext ==
    \/ ScriptTop \/ InputHandling \/ GenerationStep \/ SaveToHistory
    \/ UserSubmits \/ UserSubmitsDuringRun
SpecApp == AppInit /\ [][AppNext]_vars

----------------------------------------------------------------------------
\* Properties of the accumulator.

\* A step of UpdateFromLlm.
MergeStep == ncalls' = ncalls + 1

\* C1: merging the same extraction twice in a row leaves the profile exactly
\* as the first merge left it: a call whose argument equals the argument of the
\* call before it changes no field.
C1_MergeIdempotent ==
    [][(MergeStep /\ ncalls >= 1 /\ last_extracted' = last_extracted)
          => user_details' = user_details]_vars

\* C1 witness: a field set by a first merge, then the same usable two-token
\* extraction merged twice, the field holding three distinct tokens.
C1_Witness ==
    /\ ncalls = 3
    /\ repeated
    /\ Usable(last_extracted.Country)
    /\ Len(TokenList(last_extracted.Country)) >= 2
    /\ Len(TokenList(user_details.Country)) >= 3
    /\ \A i, j \in 1..Len(TokenList(user_details.Country)) :
          /\ TokenList(user_details.Country)[i] # <<>>
          /\ i # j => TokenList(user_details.Country)[i] # TokenList(user_details.Country)[j]

\* The tokens of new_list that the claim C2 says are added: non-empty, not
\* among the existing tokens, each once, in the order of their first occurrence.
C2_Added(current_list, new_list) ==
    LET keep(i) == /\ new_list[i] # <<>>
                   /\ ~Contains(current_list, new_list[i])
                   /\ \A j \in 1..(i - 1) : new_list[j] # new_list[i]
        F[i \in 0..Len(new_list)] ==
            IF i = 0 THEN <<>>
            ELSE IF keep(i) THEN Append(F[i - 1], new_list[i]) ELSE F[i - 1]
    IN  F[Len(new_list)]

\* C2 (as claimed): whenever a usable value is merged into a field that holds
\* a value, the stored value becomes the existing trimmed tokens followed by
\* the new tokens not yet present, joined with ", ".
C2_MergeResultRejoined ==
    [][\A key \in Fields :
          (MergeStep /\ Truthy(user_details[key]) /\ Usable(last_extracted'[key]))
              => user_details'[key] =
                    StrVal(JoinCommaSpace(
                        TokenList(user_details[key])
                            \o C2_Added(TokenList(user_details[key]),
                                        TokenList(last_extracted'[key]))))]_vars

\* A stored value is normal: a string equal to its own tokens joined by ", ",
\* the tokens non-empty and pairwise distinct.
Normalized(v) ==
    /\ v.t = "str"
    /\ LET tokens == TokenList(v)
       IN  /\ v.s = JoinCommaSpace(tokens)
           /\ \A i \in 1..Len(tokens) : tokens[i] # <<>>
           /\ \A i, j \in 1..Len(tokens) : i # j => tokens[i] # tokens[j]

\* C3 (as claimed): every field of the profile is unset or holds a normal
\* value, also after the first value the field receives.
C3_ProfileNormalized ==
    \A key \in Fields : user_details[key] = None \/ Normalized(user_details[key])



----------------------------------------------------------------------------
\* Properties of the gateway.

LastOutcome == outcomes[Len(outcomes)]
LastTried == tried[Len(tried)]

\* An adapter attempt failed with a rate-limit failure / with another failure.
FailedTransient(o) == o.kind # "ok" /\ IsRateLimit(o.error)
FailedPermanent(o) == o.kind # "ok" /\ ~IsRateLimit(o.error)

\* The position that follows position i in a list of n keys, cyclically.
Following(i, n) == IF i + 1 = n THEN 0 ELSE i + 1

\* C4: after a rate-limit failure with budget left, the cursor has moved by
\* one and the next attempt goes to the same provider with the key that
\* follows the failed one in the provider's list, cyclically.
C4_TransientRotatesToNextKey ==
    LET ks == KeysOf(keys, call.provider)
    IN  /\ \A i \in 1..Len(tried) : tried[i].provider = call.provider
        /\ \A i \in 1..(Len(tried) - 1) :
              /\ FailedTransient(outcomes[i])
              /\ tried[i + 1].index = Following(tried[i].index, Len(ks))
              /\ tried[i + 1].key = ks[Following(tried[i].index, Len(ks)) + 1]
        /\ (pc = "loop" /\ tried # <<>>) =>
              /\ FailedTransient(LastOutcome)
              /\ IndexOf(key_indices, call.provider) = Following(LastTried.index, Len(ks))
              /\ GetCurrentKey(keys, key_indices, call.provider)
                    = ks[Following(LastTried.index, Len(ks)) + 1]

\* C4 witness: a second attempt made after a rate-limit failure on the last
\* of three keys, so the rotation wrapped to the first key.
C4_Witness ==
    /\ Len(tried) = 2
    /\ Len(KeysOf(keys, call.provider)) = 3
    /\ tried[1].index = 2
    /\ tried[2].index = 0
    /\ FailedTransient(outcomes[1])

\* C5: a failure that is not a rate-limit failure ends the call at once: the
\* answer is the error message, the other fields are empty, the failed attempt
\* is the last one, and the cursor is where it was when the attempt was made.
C5_PermanentFailureReturnsAtOnce ==
    (outcomes # <<>> /\ FailedPermanent(LastOutcome)) =>
        /\ pc = "done"
        /\ result = MessageResult(ErrorMsg(LastOutcome.error))
        /\ Len(tried) = Len(outcomes)
        /\ IndexOf(key_indices, call.provider) = LastTried.cursor
        /\ \A p \in Providers \ {call.provider} : key_indices[p] = call.entry[p]

\* C5 witness: a permanent failure on the second attempt, after a rate-limit
\* failure and a rotation.
C5_Witness ==
    /\ pc = "done"
    /\ Len(outcomes) = 2
    /\ FailedTransient(outcomes[1])
    /\ FailedPermanent(outcomes[2])
    /\ tried[2].key # tried[1].key

\* C6: without a credential (empty list or unknown provider) the call returns
\* the no-credential notice with the other fields empty, no adapter was
\* invoked, no cursor moved, and the loop did not go on.
C6_NoCredentialReturnsNotice ==
    (pc # "idle" /\ KeysOf(keys, call.provider) = <<>>) =>
        /\ tried = <<>>
        /\ outcomes = <<>>
        /\ call.attempt = 0
        /\ key_indices = call.entry
        /\ pc = "done" => result = MessageResult(NoKeyMsg)

\* C6 witness: a returned call for a provider without keys, made while
\* another provider's cursor is not at 0.
C6_Witness ==
    /\ pc = "done"
    /\ result = MessageResult(NoKeyMsg)
    /\ call.provider = "groq"
    /\ key_indices["google"] > 0

\* C7: the call returns the quota-exhausted result exactly when max_retries
\* attempts were made and each failed with a rate-limit failure.
C7_QuotaResultIffBudgetExhausted ==
    pc = "done" =>
        ( result = MessageResult(QuotaMsg)
            <=> /\ Len(tried) = max_retries
                /\ Len(outcomes) = max_retries
                /\ \A i \in 1..Len(outcomes) : FailedTransient(outcomes[i]) )

\* C7 witness: the quota-exhausted result after two rate-limit failures on
\* two different keys.
C7_Witness ==
    /\ pc = "done"
    /\ result = MessageResult(QuotaMsg)
    /\ Len(tried) = 2
    /\ tried[1].key # tried[2].key

\* C8: a call never makes more than max_retries adapter invocations, and every
\* call that was entered returns.
C8_BoundedRetry ==
    /\ [](Len(tried) <= max_retries /\ call.attempt < max_retries)
    /\ (pc = "loop" ~> pc = "done")

\* C8 witness: a call that returned a parsed reply from its second invocation.
C8_Witness ==
    /\ pc = "done"
    /\ Len(tried) = 2
    /\ LastOutcome.kind = "ok"

----------------------------------------------------------------------------
\* Properties of the credential pool.

\* The keys of a sequence, as a set.
Range(seq) == {seq[i] : i \in 1..Len(seq)}

\* C9: on a provider with n >= 1 keys, rotate_key returns the key at position
\* (i + 1) mod n, get_current_key then returns the same key, and n rotations
\* in a row return every key once and end on the key the run started from.
C9_RotationIsCyclic ==
    LET ks == KeysOf(keys, rot.provider)
        n == Len(ks)
        ret == rot.returned
    IN  (ret # <<>> /\ n >= 1) =>
            /\ ret[Len(ret)] = ks[((rot.before + 1) % n) + 1]
            /\ GetCurrentKey(keys, key_indices, rot.provider) = ret[Len(ret)]
            /\ Len(ret) = n =>
                  /\ ret[n] = rot.start
                  /\ Range(ret) = Range(ks)
                  /\ \A i, j \in 1..n : i # j => ret[i] # ret[j]

\* C9 witness: three rotations in a row on three keys, begun on the second
\* key, so the run wrapped around the end of the list.
C9_Witness ==
    /\ rot.provider = "google"
    /\ Len(keys["google"]) = 3
    /\ Len(rot.returned) = 3
    /\ rot.start = keys["google"][2]

----------------------------------------------------------------------------
\* Properties of the parsers.

\* C10 (as claimed): neither parser raises, whatever the reply text is.
C10_ParsersNeverRaise ==
    /\ app_result.ran => ~app_result.out.raised
    /\ gw_result.ran => ~gw_result.out.raised

\* The reply holds a decodable object: its brace span decodes to an object.
HasDecodedObject(text) == HasBraceSpan(text) /\ JsonKind(BraceSpan(text)) = "object"

\* The object decoded from the reply.
DecodedObject(text) == ObjectOf(BraceSpan(text))

\* The decoded object has an answer that is not empty.
HasAnswer(text) ==
    /\ HasDecodedObject(text)
    /\ "answer" \in DOMAIN DecodedObject(text)
    /\ Truthy(DecodedObject(text)["answer"])

\* C11 (as claimed): when the reply holds no decodable object, or the object's
\* answer is missing or empty, extract_json_and_sources returns the raw text
\* with the user_options:/videos: tails cut and the fence markers removed as
\* the answer, and every lead field is absent.
C11_FallbackAnswerAndNoFields ==
    (app_result.ran /\ ~HasAnswer(raw_text)) =>
        /\ ~app_result.out.raised
        /\ app_result.out.answer = StrVal(FallbackAnswer(raw_text))
        /\ \A f \in DOMAIN app_result.out.lead_info : app_result.out.lead_info[f] = None

\* The reply is one decodable object with prose or code-fence markers around it.
ProseLexemes == {"x", "FENCE_JSON", "FENCE"}
ObjectInProse(text) ==
    /\ HasDecodedObject(text)
    /\ \E i, j \in 1..Len(text) :
          /\ i < j
          /\ SubSeq(text, i, j) = BraceSpan(text)
          /\ \A k \in (1..(i - 1)) \cup ((j + 1)..Len(text)) : text[k] \in ProseLexemes

\* C12: for a reply that is one decodable object with a non-empty answer
\* inside prose or code fences, extract_json_and_sources returns the object's
\* answer, its user_options and videos (the empty list when missing), and for
\* each lead field the object's value under that key (absent when missing).
C12_SuccessPathReturnsObjectFields ==
    (app_result.ran /\ ObjectInProse(raw_text) /\ HasAnswer(raw_text)) =>
        LET d == DecodedObject(raw_text)
            out == app_result.out
        IN  /\ ~out.raised
            /\ out.answer = d["answer"]
            /\ out.user_options = (IF "user_options" \in DOMAIN d THEN d["user_options"]
                                   ELSE ListVal(<<>>))
            /\ out.videos = (IF "videos" \in DOMAIN d THEN d["videos"] ELSE ListVal(<<>>))
            /\ \A f \in DOMAIN out.lead_info :
                  out.lead_info[f] = (IF f \in DOMAIN d THEN d[f] ELSE None)

\* C12 witness: a fenced object with answer, Country and Sentiment, and
\* without user_options, was parsed.
C12_Witness ==
    /\ app_result.ran
    /\ ObjectInProse(raw_text) /\ HasAnswer(raw_text)
    /\ raw_text[1] = "x" /\ raw_text[2] = "FENCE_JSON"
    /\ app_result.out.lead_info["Country"] = StrVal(<<"U">>)
    /\ app_result.out.lead_info["Sentiment"] # None
    /\ app_result.out.user_options = ListVal(<<>>)

----------------------------------------------------------------------------
\* The profile across one merge.

\* s is a prefix of t.
IsPrefix(s, t) == Len(s) <= Len(t) /\ SubSeq(t, 1, Len(s)) = s

\* C20: across one update_from_llm call a field that was set stays set, the
\* tokens of its value before the call are a prefix of the tokens of its value
\* after the call, and no field leaves the profile.
C20_ProfileNeverShrinks ==
    [][ /\ DOMAIN user_details \subseteq DOMAIN user_details'
        /\ \A f \in DOMAIN user_details :
              Truthy(user_details[f]) =>
                  /\ Truthy(user_details'[f])
                  /\ IsPrefix(TokenList(user_details[f]), TokenList(user_details'[f])) ]_vars

\* C20 witness: a field whose first value held an empty token has been
\* extended by a later call, the empty token staying where it was.
C20_Witness ==
    /\ ncalls >= 2
    /\ TokenList(user_details["Country"]) = << <<"U">>, <<>>, <<"D">>, <<"G">> >>

----------------------------------------------------------------------------
\* Properties of the sink.

\* The lead rows of the CSV file: its lines after the header line.
CsvRows == IF csv_file.lines = <<>> THEN <<>> ELSE Tail(csv_file.lines)

\* Number of upsert_lead calls begun so far.
RECURSIVE TurnsOf(_)
TurnsOf(ss) ==
    IF ss = {} THEN 0
    ELSE LET s == CHOOSE x \in ss : TRUE IN turn[s] + TurnsOf(ss \ {s})

\* The rows of a sequence that carry the session id.
RowsOf(rows, s) == {i \in 1..Len(rows) : rows[i].Session_ID = s}

\* C13: when construction connected through neither source, use_sheets is
\* false and stays false, no call is ever made on the worksheet, and each
\* upsert_lead call appends exactly one row, its own, to the CSV file.
C13_UnavailableMeansLocalOnly ==
    sheet_via = "none" =>
        /\ ~use_sheets
        /\ remote_calls = 0
        /\ \A s \in Sessions : upc[s] = "idle"
        /\ Len(CsvRows) = TurnsOf(Sessions)
        /\ done.kind # "none" =>
              /\ done.kind = "local"
              /\ sheet = done.before
              /\ csv_file.lines = Append(done.csv_before.lines, done.row)
              /\ done.row = RowData(done.session, turn[done.session])

\* C13 witness: without a connection, the worksheet holding a lead, both
\* sessions have made calls and all rows are in the CSV file.
C13_Witness ==
    /\ sheet_via = "none"
    /\ Len(sheet) = 2
    /\ turn["s1"] = 2 /\ turn["s2"] = 1
    /\ Len(CsvRows) = 3

\* C14: an upsert that finds its session id in column A replaces the first
\* row carrying the id by the new row; the number of rows and every other
\* row, the header included, are as before, and the CSV file is untouched.
C14_KnownSessionOverwrittenInPlace ==
    done.kind = "overwrite" =>
        LET first == CHOOSE i \in RowsOf(done.before, done.session) :
                        \A j \in RowsOf(done.before, done.session) : i <= j
        IN  /\ RowsOf(done.before, done.session) # {}
            /\ done.index = first
            /\ Len(sheet) = Len(done.before)
            /\ sheet[first] = done.row
            /\ \A i \in 1..Len(sheet) : i # first => sheet[i] = done.before[i]
            /\ csv_file = done.csv_before

\* C14 witness: the second snapshot of a session replaced its first one in
\* row 3, below the header and the lead of an earlier session, another
\* session's row standing below it.
C14_Witness ==
    /\ done.kind = "overwrite"
    /\ done.index = 3
    /\ Len(sheet) = 4
    /\ done.before[3] = RowData(done.session, 1)
    /\ sheet[3] = RowData(done.session, 2)
    /\ sheet[1] = HeaderRow

\* C15 (as claimed): an upsert that does not find its session id writes the
\* row directly below the last populated row, leaves every populated row as
\* it was, and does not put the row in the header row (row 1), also when the
\* worksheet was empty.
C15_NewSessionInsertedBelowData ==
    done.kind = "insert" =>
        /\ done.index = Len(done.before) + 1
        /\ Len(sheet) = Len(done.before) + 1
        /\ SubSeq(sheet, 1, Len(done.before)) = done.before
        /\ sheet[done.index] = done.row
        /\ done.index > 1

\* C16 (as claimed): with the sessions' upserts run one at a time, each store
\* holds at most one row per session id, and that row is the session's latest
\* snapshot.
C16_OneRowPerSession ==
    (\A t \in Sessions : upc[t] = "idle") =>
        \A s \in Sessions :
            /\ Cardinality(RowsOf(sheet, s)) <= 1
            /\ Cardinality(RowsOf(CsvRows, s)) <= 1
            /\ \A i \in RowsOf(sheet, s) : sheet[i] = RowData(s, turn[s])
            /\ \A i \in RowsOf(CsvRows, s) : CsvRows[i] = RowData(s, turn[s])

\* The sequence holds the row.
HoldsRow(rows, row) == \E i \in 1..Len(rows) : rows[i] = row

\* C17: when a call on the worksheet raises, upsert_lead returns, and once it
\* has returned the row of that upsert is the line appended to the CSV file,
\* the worksheet being as before; after every upsert_lead call its row is in
\* the worksheet or in the CSV file.
C17_NoLossOnRemoteFailure ==
    /\ (done.kind = "fallback" /\ \A t \in Sessions : upc[t] = "idle") =>
          /\ done.row = RowData(done.session, turn[done.session])
          /\ csv_file.lines = Append(done.csv_before.lines, done.row)
          /\ sheet = done.before
    /\ done.kind # "none" => HoldsRow(sheet, done.row) \/ HoldsRow(CsvRows, done.row)

\* C17 witness: the column was read and the write raised; the row is in the
\* CSV file, the session's earlier row still in the worksheet.
C17_Witness ==
    /\ done.kind = "fallback"
    /\ loc[done.session].col1 # <<>>
    /\ done.row.cells = 2
    /\ HoldsRow(sheet, RowData(done.session, 1))
    /\ HoldsRow(CsvRows, done.row)
    /\ ~HoldsRow(sheet, done.row)

\* C18 (as claimed): when the upserts of two sessions interleave and none of
\* their calls on the worksheet raised, the worksheet holds the row of each
\* session once both have returned.
C18_ConcurrentUpsertsIndependent ==
    (\A t \in Sessions : upc[t] = "idle") =>
        \A s \in Sessions :
            (turn[s] > 0 /\ use_sheets /\ RowsOf(CsvRows, s) = {}) =>
                HoldsRow(sheet, RowData(s, turn[s]))

\* C19 (as claimed): when construction ends with the worksheet connected, by
\* the credential file or by the secrets, row 1 is the expected header.
C19_HeaderReconciledAtConstruction ==
    (sheet_via \in {"file", "secrets"} /\ use_sheets /\ TurnsOf(Sessions) = 0) =>
        (sheet # <<>> /\ sheet[1] = HeaderRow)

----------------------------------------------------------------------------
\* Placeholders and defaults of the profile.

\* An extracted value that is absent, empty, or one of the five literals.
IsPlaceholder(v) ==
    \/ v = None
    \/ v.t = "str" /\ v.s \in { <<>>, <<"n", "u", "l", "l">>, <<"N", "o", "n", "e">>,
                                <<"N", "/", "A">>, <<"u", "n", "k", "n", "o", "w", "n">> }

\* Every non-empty token of the new value is a token of the stored value.
AddsNoToken(old, new) ==
    \A i \in 1..Len(TokenList(new)) :
        TokenList(new)[i] = <<>> \/ Contains(TokenList(old), TokenList(new)[i])

\* C21: a merge leaves a field exactly as it was when the value extracted for
\* it is absent, empty or one of the placeholder literals, whether the field
\* was set or not, and when the field is set and the extracted value adds no
\* new token to it.
C21_PlaceholdersLeaveFieldUnchanged ==
    [][ MergeStep =>
          \A f \in Fields :
              LET new == last_extracted'[f]
                  old == user_details[f]
              IN  /\ IsPlaceholder(new) => user_details'[f] = old
                  /\ (~IsPlaceholder(new) /\ Truthy(old) /\ AddsNoToken(old, new))
                        => user_details'[f] = old ]_vars

\* C21 witness: a field holding a value stored verbatim has been merged with
\* the placeholder N/A and holds the same value.
C21_Witness ==
    /\ ncalls >= 2
    /\ last_extracted["Country"] = StrVal(<<"N", "/", "A">>)
    /\ user_details["Country"] = StrVal(<<"U", ",", "D">>)

\* The fields that start with a default, and their defaults.
Defaulted == {"Sentiment"}

\* C26 (as claimed): a field with a default holds the default as long as no
\* usable value has been merged into it, and the merge of its first usable
\* value v leaves v as the stored value.
C26_DefaultsOnlyUntilObserved ==
    /\ [](\A f \in Defaulted \ observed : user_details[f] = FreshDetails[f])
    /\ [][ MergeStep =>
             \A f \in Defaulted \ observed :
                 Usable(last_extracted'[f]) => user_details'[f] = last_extracted'[f] ]_vars

----------------------------------------------------------------------------
\* The credential lists.

NoDuplicates(list) == \A i, j \in 1..Len(list) : i # j => list[i] # list[j]

\* What every _add_key call leaves: the provider's list is its old list, with
\* or without the key at its end; the other lists are as before; no list
\* holds a string twice.
AddKeyFrame ==
    /\ \A p \in Providers : NoDuplicates(keys[p])
    /\ last_add.provider # "none" =>
          /\ keys[last_add.provider] \in
                {last_add.before[last_add.provider],
                 Append(last_add.before[last_add.provider], last_add.key)}
          /\ \A p \in Providers \ {last_add.provider} : keys[p] = last_add.before[p]

\* The last _add_key call appended its key.
Inserted ==
    keys[last_add.provider] = Append(last_add.before[last_add.provider], last_add.key)

\* C25 (as claimed): _add_key appends the key exactly when that string is not
\* yet in the provider's list; the lists are duplicate-free, in insertion
\* order, and an add to one provider changes no other list.
C25_AddKeyIffNotPresent ==
    /\ AddKeyFrame
    /\ last_add.provider # "none" =>
          (Inserted <=> ~Contains(last_add.before[last_add.provider], last_add.key))

\* C25 (amended): _add_key appends the key exactly when it is not the empty
\* string and not yet in the provider's list; the lists are duplicate-free, in
\* insertion order, and an add to one provider changes no other list.
C25_AddKeyIffNewAndNotEmpty ==
    /\ AddKeyFrame
    /\ last_add.provider # "none" =>
          (Inserted <=> /\ last_add.key # ""
                        /\ ~Contains(last_add.before[last_add.provider], last_add.key))

\* C25 witness: a key already in a list of three was added again and the list
\* is as before, another provider holding keys.
C25_Witness ==
    /\ last_add.provider = "google"
    /\ Len(keys["google"]) = 3
    /\ last_add.key = keys["google"][2]
    /\ keys["google"] = last_add.before["google"]
    /\ keys["groq"] # <<>>

----------------------------------------------------------------------------
\* Classification of failures, exhaustion, and the cursor across a call.

\* The failure message carries one of the markers the classification is
\* claimed to look for: 429, the word quota, or resource exhausted, written
\* with a space or with an underscore, in any letter case.
HasRateLimitMarker(error_str) ==
    \/ \E i \in 1..Len(error_str) : error_str[i] = "429"
    \/ \E i \in 1..Len(error_str) :
          LowerWord(error_str[i]) \in {"quota", "resource_exhausted"}
    \/ \E i \in 1..(Len(error_str) - 1) :
          LowerWord(error_str[i]) = "resource" /\ error_str[i + 1] = "exhausted"

\* C27 (as claimed): a failed attempt is handled as transient exactly when its
\* message carries a rate-limit marker, and as permanent otherwise.
C27_TransientIffRateLimitMarker ==
    \A i \in 1..Len(outcomes) :
        outcomes[i].kind # "ok" =>
            /\ outcomes[i].kind = "transient" <=> HasRateLimitMarker(outcomes[i].error)
            /\ outcomes[i].kind = "permanent" <=> ~HasRateLimitMarker(outcomes[i].error)

\* C28 (as claimed): when the call returns the quota-exhausted result, every
\* key of the provider's list was used in an attempt of the call that failed
\* with a rate-limit failure, and no key was used twice while another was not
\* used.
C28_ExhaustionMeansEveryKeyTried ==
    (pc = "done" /\ result = MessageResult(QuotaMsg)) =>
        LET ks == KeysOf(keys, call.provider)
            used == {tried[i].key : i \in 1..Len(tried)}
        IN  /\ \A k \in 1..Len(ks) :
                  \E i \in 1..Len(tried) :
                      tried[i].key = ks[k] /\ FailedTransient(outcomes[i])
            /\ (\E i, j \in 1..Len(tried) : i # j /\ tried[i].key = tried[j].key)
                  => used = {ks[k] : k \in 1..Len(ks)}

\* Number of rate-limit failures among the outcomes.
RECURSIVE TransientCount(_)
TransientCount(os) ==
    IF os = <<>> THEN 0
    ELSE (IF Head(os).kind = "transient" THEN 1 ELSE 0) + TransientCount(Tail(os))

\* C29: during and after a call, the cursor of the called provider has moved
\* one step, cyclically, for each rate-limit failure of the call and is
\* untouched without one (first-attempt success, permanent failure, no key);
\* the cursors of the other providers are as at entry; after a success that
\* followed a rotation the current key is the key that succeeded; and the
\* first attempt of a call uses the key that was current at its entry.
C29_CursorMovesOnlyOnTransient ==
    pc # "idle" =>
        LET p == call.provider
            n == Len(KeysOf(keys, p))
            k == TransientCount(outcomes)
        IN  /\ \A q \in Providers \ {p} : key_indices[q] = call.entry[q]
            /\ p \in Providers =>
                  key_indices[p] = (IF k = 0 THEN call.entry[p]
                                    ELSE (call.entry[p] + k) % n)
            /\ (pc = "done" /\ outcomes # <<>> /\ LastOutcome.kind = "ok") =>
                  GetCurrentKey(keys, key_indices, p) = LastTried.key
            /\ tried # <<>> => tried[1].key = GetCurrentKey(keys, call.entry, p)

\* C29 witness: a call on three keys, entered with the cursor on the last
\* key, succeeded on the first key after one rotation.
C29_Witness ==
    /\ pc = "done"
    /\ Len(KeysOf(keys, call.provider)) = 3
    /\ call.entry[call.provider] = 2
    /\ Len(tried) = 2
    /\ LastOutcome.kind = "ok"
    /\ key_indices[call.provider] = 0

----------------------------------------------------------------------------
\* The remote store after a failure, and the local file.

\* C30: the logger is connected or not from its construction on and no upsert
\* changes that; after an upsert that raised and wrote its row to the local
\* file, the next call goes to the worksheet again: it writes nothing to the
\* local file and its next step is a call on the worksheet.
C30_FailureKeepsRemoteStore ==
    /\ [](done.kind = "fallback" => use_sheets)
    /\ [][sheet_via # "new" => use_sheets' = use_sheets]_vars
    /\ [][(done.kind = "fallback" /\ turn' # turn) =>
              /\ csv_file' = csv_file
              /\ done' = done
              /\ \E s \in Sessions : upc[s] = "idle" /\ upc'[s] = "read"]_vars
    /\ [][\A s \in Sessions :
              (upc[s] = "read" /\ upc'[s] # "read") =>
                  remote_calls' = remote_calls + 1]_vars

\* C30 witness: the second upsert of a session, whose first one raised and
\* went to the local file, is about to read the worksheet.
C30_Witness ==
    /\ done.kind = "fallback"
    /\ done.session = "s1"
    /\ turn["s1"] = 2
    /\ upc["s1"] = "read"
    /\ Len(csv_file.lines) = 2

\* C24: once the logger is constructed the local file exists, its first line
\* is the header and no other line is; a local or fallback write appends
\* exactly the row of its call, a write to the worksheet leaves the file as
\* it was, and every step keeps the lines the file had, in place.
C24_LocalStoreAppendOnly ==
    /\ [](sheet_via # "new" =>
              /\ csv_file.exists
              /\ csv_file.lines # <<>>
              /\ csv_file.lines[1] = HeaderRow
              /\ \A i \in 2..Len(csv_file.lines) : csv_file.lines[i] # HeaderRow)
    /\ [](done.kind \in {"local", "fallback"} =>
              csv_file.lines = Append(done.csv_before.lines, done.row))
    /\ [](done.kind \in {"overwrite", "insert"} => csv_file = done.csv_before)
    /\ [][/\ IsPrefix(csv_file.lines, csv_file'.lines)
          /\ Len(csv_file'.lines) <= Len(csv_file.lines) + 1]_vars

\* C24 witness: a connected logger whose local file holds the header and the
\* rows of three failed upserts.
C24_Witness ==
    /\ use_sheets
    /\ done.kind = "fallback"
    /\ Len(csv_file.lines) = 4
    /\ csv_file.lines[2] # csv_file.lines[4]

----------------------------------------------------------------------------
\* Properties of the script runs of the app.

\* C23: every snapshot handed to upsert_lead carries the session id of the
\* session state, the same in all of them; once the session id is in the
\* session state no step changes it; and the construction of the tracker at
\* the top of a run, the keys being present, leaves the start time, the
\* profile and the two logs as they were.
C23_SessionIdStable ==
    /\ [](\A i \in 1..Len(snapshots) :
              /\ snapshots[i].Session_ID = session_id
              /\ snapshots[i].Session_ID = snapshots[1].Session_ID
              /\ snapshots[i].Session_ID \in Sessions)
    /\ [][("session_id" \in in_state) => session_id' = session_id]_vars
    /\ [][(apc = "top" /\ TrackerKeys \subseteq in_state) =>
              /\ start_time' = start_time
              /\ user_details' = user_details
              /\ conversation_log' = conversation_log
              /\ user_input_log' = user_input_log]_vars

\* C23 witness: the tracker has been constructed in at least five runs, two
\* snapshots were taken, a value was merged into the profile, and the run
\* waits for input.
C23_Witness ==
    /\ now >= 5
    /\ Len(snapshots) = 2
    /\ user_details # FreshDetails
    /\ Len(conversation_log) = 2
    /\ session_id = "s2"
    /\ apc = "idle"

\* C22 (as claimed): a user message is followed in the messages by the
\* assistant's answer before another user message is accepted; the row
\* upserted in turn k holds exactly k interactions, the last one that of the
\* k-th user message; and when the app waits for input every user message has
\* had exactly one generation step.
C22_OneGenerationStepPerUserMessage ==
    /\ \A i \in 1..(Len(messages) - 1) :
          messages[i].role = "user" => messages[i + 1].role = "assistant"
    /\ \A k \in 1..Len(snapshots) :
          LET log == snapshots[k].Full_Conversation_History
          IN  Len(log) = k /\ log[k].user = k
    /\ apc = "idle" =>
          /\ Len(conversation_log) = Len(UserMessages(messages))
          /\ \A k \in 1..Len(conversation_log) : conversation_log[k].user = k

====
